---- MODULE Spec2Model ----
(***************************************************************************)
(* Model of scripts/add_images.py: the pipeline that converts the source   *)
(* documents of the archive with a headless converter, and splices the     *)
(* cleaned markup and the extracted images into the reader pages.          *)
(*                                                                         *)
(* A page's text is a sequence of tokens; every literal the script looks   *)
(* for is one token, everything else is "TXT":                             *)
(*   "OPEN"   <div class="reader-content">                                 *)
(*   "CLOSE"  </div>                                                       *)
(*   "MARK"   <!-- lo-images -->                                           *)
(*   a file name f: the anchor <a class="file-link-btn" href="../files/f"> *)
(*   "BODY"   the cleaned markup of a converted document                   *)
(*   an image name ("x_html_1.png", "img001.png"): an <img> with that src  *)
(*   "x_html_1.png", "img001.png"  an <img> with that src                  *)
(* Offsets are 0-based as in Python: s[:k] is SubSeq(s, 1, k).             *)
(***************************************************************************)
EXTENDS Integers, Sequences, FiniteSets, TLC

\* ------------------------------------------------------------------ bounds
MaxWorkers == 2
MaxImages == 2
MaxNames == 3
MaxAttrs == 3
MaxFrag == 2
MaxPatches == 2

\* ------------------------------------------------------------------ corpus
ThemeOrder == <<"01-a", "02-b">>
Themes == {ThemeOrder[i] : i \in 1..Len(ThemeOrder)}

\* reader pages, in the order of their paths (<theme>/read/<slug>.html)
PageOrder == <<"p1", "p2", "p3">>
Pages == {PageOrder[i] : i \in 1..Len(PageOrder)}
ThemeOf(p) == IF p = "p3" THEN "02-b" ELSE "01-a"

\* source file names, in lexicographic order
FileOrder == <<"a.doc", "b.RTF", "c.pdf", "d.odt", "gone.doc">>
Files == {FileOrder[i] : i \in 1..Len(FileOrder)}
\* mutant: the test for the file is passed by every name
SourceExists_Always(t, f) == TRUE
\* <theme>/files/<name> exists on disk
SourceExists(t, f) == f # "gone.doc"
\* Path.suffix
Suffix(f) ==
  CASE f = "a.doc" -> ".doc"
    [] f = "b.RTF" -> ".RTF"
    [] f = "c.pdf" -> ".pdf"
    [] f = "d.odt" -> ".odt"
    [] OTHER -> ".doc"
\* str.lower on a suffix
Lower(s) == IF s = ".RTF" THEN ".rtf" ELSE s
\* mutant: .pdf is taken for convertible as well
ConvertibleExts_WithPdf == {".doc", ".docx", ".rtf", ".odt", ".pdf"}
\* the extensions main() lets through to a job
ConvertibleExts == {".doc", ".docx", ".rtf", ".odt"}

OpenTag == "OPEN"
CloseTag == "CLOSE"
Marker == "MARK"
IsFileLink(tok) == tok \in Files

\* page layouts
Plain(f) == <<"OPEN", "TXT", "CLOSE", f>>
Marked(f) == <<"OPEN", "MARK", "BODY", "CLOSE", f>>
NoContainer(f) == <<"TXT", f>>
LinkInside(f) == <<"OPEN", "TXT", f, "CLOSE">>
Nested(f) == <<"OPEN", "TXT", "CLOSE", "TXT", "CLOSE", f, "CLOSE">>
NoClose(f) == <<"OPEN", "TXT", f>>
LinkBefore(f) == <<f, "OPEN", "TXT", "CLOSE", "CLOSE">>
TwoLinks(f, g) == <<"OPEN", "TXT", "CLOSE", f, g>>
NoLink == <<"OPEN", "TXT", "CLOSE">>

\* the layouts a page is tried with
Layouts(p) ==
  CASE p = "p1" -> {Plain("a.doc"), Marked("a.doc"), NoContainer("a.doc"),
                    Nested("a.doc"), NoClose("a.doc"), LinkBefore("a.doc"),
                    Plain("c.pdf"), Plain("gone.doc"), TwoLinks("a.doc", "d.odt")}
    [] p = "p2" -> {Plain("b.RTF"), Marked("b.RTF"), Plain("a.doc"),
                    LinkInside("a.doc"), NoLink}
    [] OTHER -> {Plain("c.pdf"), Plain("a.doc"), Marked("a.doc")}

\* the regular corpus, and the corpora that differ from it in one page
BaseCorpus == [p \in Pages |->
  CASE p = "p1" -> Plain("a.doc") [] p = "p2" -> Plain("b.RTF") [] OTHER -> Plain("c.pdf")]
\* a corpus in which a PDF sorts between two convertible documents
PdfBetween == [p \in Pages |-> IF p = "p2" THEN Plain("c.pdf") ELSE Plain("a.doc")]
Corpora ==
  {[p \in Pages |-> IF p = q THEN l ELSE BaseCorpus[p]] :
     <<q, l>> \in UNION {{<<p, l>> : l \in Layouts(p)} : p \in Pages}}
  \cup {PdfBetween}

\* ------------------------------------------------------------- string ops
\* str.find(tok, start): the first offset >= start, or -1
Find(s, tok, start) ==
  LET hits == {i \in start..(Len(s) - 1) : s[i + 1] = tok}
  IN IF hits = {} THEN -1 ELSE CHOOSE i \in hits : \A j \in hits : i <= j

\* str.rfind(tok, start, end): the last offset in start..end-1, or -1
RFind(s, tok, start, end) ==
  LET hits == {i \in start..(end - 1) : i + 1 <= Len(s) /\ s[i + 1] = tok}
  IN IF hits = {} THEN -1 ELSE CHOOSE i \in hits : \A j \in hits : i >= j

\* s[:k] and s[k:]
Prefix(s, k) == SubSeq(s, 1, k)
SuffixFrom(s, k) == SubSeq(s, k + 1, Len(s))

Contains(s, tok) == \E i \in 1..Len(s) : s[i] = tok

\* re.search of the download link: the first anchor of the page, or "none"
FirstLink(s) ==
  LET hits == {i \in 1..Len(s) : IsFileLink(s[i])}
  IN IF hits = {} THEN "none"
     ELSE s[CHOOSE i \in hits : \A j \in hits : i <= j]

\* ---------------------------------------------------------- the converter
ImageIds == 1..MaxImages
\* the image files a conversion is tried with: none, the first n for every
\* n, and the last one alone
ImageSets == {{}, {MaxImages}} \cup {1..n : n \in ImageIds}
\* the cleaned markup clean_lo_html returns: some markup, or nothing at all
\* for a document with an empty body
Fragments == {<<"BODY">>, <<>>}

\* proc.stderr[:200]
StderrLimit == 200
Min(a, b) == IF a <= b THEN a ELSE b

\* What one invocation of the converter does, as convert_one sees it: the
\* call times out or returns an exit code, the output directory holds an
\* HTML file or not and a set of image files, and an exception may be
\* raised by the call itself ("run") or while the output is read and
\* cleaned ("clean"); excMsg is str(e), which may be empty; stderr is the
\* length of the converter's diagnostic output. A conversion
\* that fails is tried with no image file and with every image file; the
\* empty fragment is tried with the one (empty) image file 1.
Behaviours ==
  {b \in [timeout : BOOLEAN, returncode : {0, 1}, html : BOOLEAN,
          images : ImageSets, excAt : {"none", "run", "clean"},
          excMsg : {"boom", ""}, body : Fragments, stderr : {0, StderrLimit + 1}] :
     /\ b.timeout => (/\ b.returncode = 0 /\ b.excAt = "none"
                      /\ (~b.html /\ b.images = {}) \/ (b.html /\ b.images = ImageIds))
     /\ b.stderr # 0 => (b.returncode = 1 /\ b.html /\ b.images = ImageIds)
     /\ b.excAt = "none" => b.excMsg = "boom"
     /\ b.excAt = "run" => (~b.timeout /\ b.returncode = 0 /\ ~b.html /\ b.images = {})
     /\ b.excAt = "clean" => (b.returncode = 0 /\ b.html /\ b.images = ImageIds)
     /\ (b.returncode = 1 \/ ~b.html) => b.images \in {{}, ImageIds}
     /\ (b.returncode = 1 /\ ~b.html) => b.images = {}
     /\ b.body = <<>> =>
          (~b.timeout /\ b.returncode = 0 /\ b.html /\ b.excAt = "none" /\ b.images = {1})}

\* the conversion fails: a timeout, an exit code, no HTML, or an exception
Fails(b) == b.timeout \/ b.returncode # 0 \/ ~b.html \/ b.excAt # "none"

\* sorted(image_files)
RECURSIVE SortedImages(_)
SortedImages(S) ==
  IF S = {} THEN <<>>
  ELSE LET lo == CHOOSE x \in S : \A y \in S : x <= y
       IN <<lo>> \o SortedImages(S \ {lo})

\* mutant: every image is given the first new name
ImgMap_AllFirst(S) == [orig \in S |-> 1]

\* clean_lo_html's rename map: the i-th name in sorted order becomes img<i>
ImgMap(S) ==
  LET sorted == SortedImages(S)
  IN [orig \in S |-> CHOOSE i \in 1..Len(sorted) : sorted[i] = orig]

\* the file names of the converter's images, and clean_lo_html's new names
OrigNames == <<"x_html_1.png", "x_html_2.png", "x_html_3.png">>
NewNames == <<"img001.png", "img002.png", "img003.png">>
\* the body of the converter's HTML: after its text, an <img> for every
\* image file it wrote; an empty body has none
extract_lo_body(body, files) ==
  IF body = <<>> THEN <<>>
  ELSE body \o [k \in 1..Len(files) |-> OrigNames[files[k]]]
\* clean_lo_html's result: the src of an <img> whose image is in the rename
\* map becomes img/<slug>/<new name>, all else stays
clean_lo_html(body_html, img_map) ==
  [k \in 1..Len(body_html) |->
     IF \E i \in DOMAIN img_map : body_html[k] = OrigNames[i]
     THEN NewNames[img_map[CHOOSE i \in DOMAIN img_map : body_html[k] = OrigNames[i]]]
     ELSE body_html[k]]

\* ------------------------------------------- the rename map, on real names
\* A file name is a sequence of characters. CharOrder lists the characters
\* in use by code point, the order in which Python compares strings.
CharOrder == <<".", "0", "1", "2", "3", "4", "5", "6", "7", "8", "9", "G", "N", "P", "c", "d", "e", "f", "g", "h", "i", "j", "m", "n", "o", "p", "r", "t", "u", "x">>
Ord(c) == CHOOSE i \in 1..Len(CharOrder) : CharOrder[i] = c

\* a < b on str
RECURSIVE StrLess(_, _)
StrLess(a, b) ==
  IF a = <<>> THEN b # <<>>
  ELSE IF b = <<>> THEN FALSE
  ELSE IF Head(a) = Head(b) THEN StrLess(Tail(a), Tail(b))
  ELSE Ord(Head(a)) < Ord(Head(b))

\* sorted(image_files) on a list of names
RECURSIVE Insert(_, _)
Insert(x, s) ==
  IF s = <<>> THEN <<x>>
  ELSE IF StrLess(x, Head(s)) THEN <<x>> \o s
  ELSE <<Head(s)>> \o Insert(x, Tail(s))
RECURSIVE SortedNames(_)
SortedNames(l) == IF l = <<>> THEN <<>> ELSE Insert(Head(l), SortedNames(Tail(l)))

\* Path(name).suffix: from the last dot on, unless that dot is the first or
\* the last character of the name
PathSuffix(name) ==
  LET i == RFind(name, ".", 0, Len(name))
  IN IF 0 < i /\ i < Len(name) - 1 THEN SuffixFrom(name, i) ELSE <<>>

\* f'{i:03d}'
DigitChar(d) == <<"0", "1", "2", "3", "4", "5", "6", "7", "8", "9">>[d + 1]
RECURSIVE Decimal(_)
Decimal(i) == IF i < 10 THEN <<DigitChar(i)>> ELSE Decimal(i \div 10) \o <<DigitChar(i % 10)>>
RECURSIVE ZeroPad(_, _)
ZeroPad(s, w) == IF Len(s) >= w THEN s ELSE ZeroPad(<<"0">> \o s, w)

\* f'img{i:03d}{ext}' with ext = Path(orig_name).suffix or '.png'
NewName(i, orig_name) ==
  LET ext == IF PathSuffix(orig_name) = <<>> THEN <<".", "p", "n", "g">>
             ELSE PathSuffix(orig_name)
  IN <<"i", "m", "g">> \o ZeroPad(Decimal(i), 3) \o ext

\* mutant: the names are numbered in the order they were listed
RenameMap_Unsorted(image_files) ==
  [orig \in {image_files[k] : k \in 1..Len(image_files)} |->
     NewName(CHOOSE i \in 1..Len(image_files) : image_files[i] = orig, orig)]

\* clean_lo_html's img_map for a list of original names
RenameMap(image_files) ==
  LET sorted_images == SortedNames(image_files)
  IN [orig \in {image_files[k] : k \in 1..Len(image_files)} |->
        NewName(CHOOSE i \in 1..Len(sorted_images) :
                  /\ sorted_images[i] = orig
                  /\ \A j \in (i + 1)..Len(sorted_images) : sorted_images[j] # orig,
                orig)]

\* the file names the rename map is tried on
NamePool ==
  {<<"p", "i", "c", "t", "u", "r", "e", "1", ".", "j", "p", "g">>,
   <<"p", "i", "c", "t", "u", "r", "e", "2", ".", "p", "n", "g">>,
   <<"p", "i", "c", "1", "0", ".", "g", "i", "f">>,
   <<"p", "i", "c", "9", ".", "g", "i", "f">>,
   <<"P", "i", "c", ".", "P", "N", "G">>,
   <<"n", "o", "e", "x", "t">>,
   <<".", "h", "i", "d", "d", "e", "n">>}
\* the ways a directory with at most MaxNames of them can be listed
Listings ==
  {l \in UNION {[1..n -> NamePool] : n \in 0..MaxNames} :
     \A i, j \in 1..Len(l) : l[i] = l[j] => i = j}

\* --------------------------------------------- the rewriting of <img> tags
\* strip_tags has rebuilt every tag as <tag k="v" k="v" ...>, so the text
\* between "<img " and ">" is a list of attributes name="value" with one
\* blank between them. An attribute is a record [name, value].
Presentational == {"width", "height", "border", "name"}
AttrPool ==
  {[name |-> "src", value |-> "dir/c.png"],
   [name |-> "src", value |-> "pic%201.png"],
   [name |-> "src", value |-> "http://x/y.png"],
   [name |-> "data-src", value |-> "c.png"],
   [name |-> "width", value |-> "10"],
   [name |-> "height", value |-> "5"],
   [name |-> "border", value |-> "0"],
   [name |-> "name", value |-> "Image1"],
   [name |-> "alt", value |-> "t"]}
\* the <img> tags the rewriting is tried on: up to MaxAttrs attributes, no
\* attribute name twice
ImgTags ==
  {t \in UNION {[1..n -> AttrPool] : n \in 1..MaxAttrs} :
     \A i, j \in 1..Len(t) : t[i].name = t[j].name => i = j}

\* os.path.basename(urllib.parse.unquote(value))
SrcBasename(value) ==
  CASE value = "dir/c.png" -> "c.png"
    [] value = "pic%201.png" -> "pic 1.png"
    [] value = "http://x/y.png" -> "y.png"
    [] OTHER -> value
\* the rename map of a directory with the images "c.png" and "pic 1.png"
TagImgMap == [n \in {"c.png", "pic 1.png"} |-> IF n = "c.png" THEN "img001.png" ELSE "img002.png"]
\* f'img/{reader_slug}/{img_map[src_basename]}'
NewSrc(new_name) == <<"img", "slug", new_name>>

\* the pattern src="[^"]*" matches in every attribute whose name ends in
\* src
MatchesSrc(a) == a.name \in {"src", "data-src"}
\* re.search(r'src="([^"]*)"', tag_content): the first match, 0 for none
SrcMatch(t) ==
  LET hits == {k \in 1..Len(t) : MatchesSrc(t[k])}
  IN IF hits = {} THEN 0 ELSE CHOOSE k \in hits : \A m \in hits : k <= m
\* re.sub(r'\s+(width|height|border|name)="[^"]*"', '', tag_content): the
\* pattern needs white space before the name, and the first attribute of
\* tag_content has none
RECURSIVE StripFrom(_, _)
StripFrom(t, k) ==
  IF k > Len(t) THEN <<>>
  ELSE IF k > 1 /\ t[k].name \in Presentational THEN StripFrom(t, k + 1)
  ELSE <<t[k]>> \o StripFrom(t, k + 1)
\* re.sub(r'src="[^"]*"', f'src="{new_src}"', cleaned)
ReplaceSrc(t, new_src) ==
  [k \in 1..Len(t) |-> IF MatchesSrc(t[k]) THEN [t[k] EXCEPT !.value = new_src] ELSE t[k]]

rewrite_img(t) ==
  IF SrcMatch(t) = 0 THEN t
  ELSE LET src_basename == SrcBasename(t[SrcMatch(t)].value)
       IN IF src_basename \notin DOMAIN TagImgMap THEN t
          ELSE ReplaceSrc(StripFrom(t, 1), NewSrc(TagImgMap[src_basename]))

\* Python truthiness of result['error'] (None is written "None")
Truthy(e) == e \notin {"None", ""}

\* the result dict convert_one starts from
NewResult(w) ==
  [raised |-> FALSE, theme |-> w.theme, source |-> w.source, reader |-> w.reader,
   job |-> w.job, error |-> "None", skipped |-> FALSE, has_body |-> FALSE,
   body_html |-> <<>>, image_files |-> <<>>, num_images |-> 0, keeps_tmpdir |-> FALSE,
   stderr_kept |-> 0]

\* mutant: the exit code is looked at after the output directory
TryConvert_OutputFirst(w, b) ==
  LET result == NewResult(w)
      files == SortedImages(b.images)
      img_map == ImgMap(b.images)
  IN IF b.excAt = "run" THEN [result EXCEPT !.error = b.excMsg]
     ELSE IF b.timeout THEN [result EXCEPT !.error = "Timeout after 60s"]
     ELSE IF ~b.html THEN [result EXCEPT !.error = "No HTML output produced"]
     ELSE IF files = <<>> THEN [result EXCEPT !.skipped = TRUE]
     ELSE IF b.returncode # 0
     THEN [result EXCEPT !.error = "LO exit code",
                         !.stderr_kept = Min(b.stderr, StderrLimit)]
     ELSE IF b.excAt = "clean" THEN [result EXCEPT !.error = b.excMsg]
     ELSE [result EXCEPT !.has_body = TRUE,
             !.body_html = clean_lo_html(extract_lo_body(b.body, files), img_map),
             !.image_files = [i \in 1..Len(files) |-> <<files[i], img_map[files[i]]>>],
             !.num_images = Len(files)]

\* the body of convert_one's try block; an error 'LO exit code' carries
\* stderr_kept characters of the diagnostic output
TryConvert(w, b) ==
  LET result == NewResult(w)
      files == SortedImages(b.images)
      img_map == ImgMap(b.images)
  IN IF b.excAt = "run" THEN [result EXCEPT !.error = b.excMsg]
     ELSE IF b.timeout THEN [result EXCEPT !.error = "Timeout after 60s"]
     ELSE IF b.returncode # 0
     THEN [result EXCEPT !.error = "LO exit code",
                         !.stderr_kept = Min(b.stderr, StderrLimit)]
     ELSE IF ~b.html THEN [result EXCEPT !.error = "No HTML output produced"]
     ELSE IF files = <<>> THEN [result EXCEPT !.skipped = TRUE]
     ELSE IF b.excAt = "clean" THEN [result EXCEPT !.error = b.excMsg]
     ELSE [result EXCEPT !.has_body = TRUE,
             !.body_html = clean_lo_html(extract_lo_body(b.body, files), img_map),
             !.image_files = [i \in 1..Len(files) |-> <<files[i], img_map[files[i]]>>],
             !.num_images = Len(files)]

\* mutant: the finally block removes the directory whatever the result
KeepsTmpdir_Never(result) == FALSE

\* the finally block: the temporary directory is kept for the patcher
\* exactly when the result lists image files
KeepsTmpdir(result) == result.image_files # <<>>

convert_one(w, b) ==
  LET result == TryConvert(w, b)
  IN [result EXCEPT !.keeps_tmpdir = KeepsTmpdir(result)]

\* what a future holds when convert_one raised instead of returning
RaisedResult(w) == [NewResult(w) EXCEPT !.raised = TRUE]

\* ------------------------------------------------- update_reader_page
\* st_size of a page, of a fragment, of an image file
Size(s) == Len(s)
\* st_size of an image file the converter wrote: the first one is empty
StatSize(f) == f - 1
RECURSIVE SumSeq(_)
SumSeq(s) == IF s = <<>> THEN 0 ELSE Head(s) + SumSeq(Tail(s))
\* sum(f.stat().st_size for f, _ in image_files)
TotalImgSize(image_files) ==
  SumSeq([k \in 1..Len(image_files) |-> StatSize(image_files[k][1])])

\* str.find('<a class="file-link-btn"', start)
FindFileLink(s, start) ==
  LET hits == {i \in start..(Len(s) - 1) : IsFileLink(s[i + 1])}
  IN IF hits = {} THEN -1 ELSE CHOOSE i \in hits : \A j \in hits : i <= j

\* offset just behind the container's opening tag, -1 without one
ContentStart(s) ==
  LET open_idx == Find(s, OpenTag, 0)
  IN IF open_idx = -1 THEN -1 ELSE open_idx + 1

\* mutant: without a closing tag the end of the page is taken for one
CloseIdx_EndOfPage(s, cs) ==
  IF Find(s, CloseTag, cs) = -1 THEN Len(s) ELSE Find(s, CloseTag, cs)

\* the closing tag chosen for a page whose container opens before cs
CloseIdx(s, cs) ==
  LET file_link_idx == FindFileLink(s, cs)
      close_idx == IF file_link_idx # -1
                   THEN RFind(s, CloseTag, cs, file_link_idx)
                   ELSE -1
  IN IF close_idx = -1 THEN Find(s, CloseTag, cs) ELSE close_idx

\* the splice region, or found = FALSE on a structural mismatch
Locate(s) ==
  LET cs == ContentStart(s)
  IN IF cs = -1 THEN [found |-> FALSE, content_start |-> -1, close_idx |-> -1]
     ELSE [found |-> CloseIdx(s, cs) # -1, content_start |-> cs,
           close_idx |-> CloseIdx(s, cs)]

\* mutant: the splice resumes behind the closing tag instead of at it
NewContent_DropsCloser(s, loc, new_body) ==
  Prefix(s, loc.content_start) \o <<Marker>> \o new_body \o SuffixFrom(s, loc.close_idx + 1)

\* page_content[:content_start] + marker + new_body + page_content[close_idx:]
NewContent(s, loc, new_body) ==
  Prefix(s, loc.content_start) \o <<Marker>> \o new_body \o SuffixFrom(s, loc.close_idx)

\* mutant: the estimate leaves out the fragment and the images
DryRunEstimate_PageOnly(before_size, result) == <<before_size, before_size>>

\* the dry-run estimate
DryRunEstimate(before_size, result) ==
  <<before_size,
    before_size + Size(result.body_html) + TotalImgSize(result.image_files)>>

\* mutant: the results are patched in the order they were collected
SortByReader_Unsorted(rs, order) == rs

\* sorted(results, key=lambda r: r['reader']): a stable sort on the path
RECURSIVE SortByReader(_, _)
SortByReader(rs, order) ==
  IF order = <<>> THEN <<>>
  ELSE SelectSeq(rs, LAMBDA r : r.reader = Head(order)) \o SortByReader(rs, Tail(order))

\* the bytes of an image file: the converted source and the original name
Bytes(result, orig) == [theme |-> result.theme, source |-> result.source, orig |-> orig]
\* the image a run before this one left for a marked page
OldBytes == [theme |-> "old", source |-> "old", orig |-> 1]

VARIABLES
  force,        \* --force
  dryRun,       \* --dry-run
  workers,      \* --workers
  themeArg,     \* --theme, "None" when absent
  pages,        \* reader page -> content
  phase,        \* where main() is
  work,         \* the work items, in submission order
  jobSt,        \* job -> "queued", "running", "finished", "consumed"
  future,       \* job -> what its future holds once finished
  tmpdirs,      \* the jobs whose temporary directory exists
  results,      \* main's list of results with images
  counters,     \* completed, errors, skipped, with_images
  imgMade,      \* the pages whose img/<slug>/ directory exists
  imgFiles,     \* page -> the files of img/<slug>/: name -> bytes
  report,       \* scripts/image_report.json
  todo,         \* the sorted results of phase 3
  cur,          \* index in todo of the result in hand
  upd,          \* where update_reader_page is: "call", "copy", "returned"
  copied,       \* images of the result in hand already copied
  pending,      \* new_content, until it is written
  ret,          \* update_reader_page's return value (before, after)
  theme_stats,  \* theme -> updated, images, before, after
  abortCause,   \* what made main() stop with an exception
  calls,        \* history: page -> calls of update_reader_page in this run
  patchLog,     \* history: page -> the splice that rewrote it in this run
  failedJobs,   \* history: the jobs whose conversion failed in this run
  snap,         \* history: the archive when this run started
  run,          \* 1 in the first run of the pipeline, 2 in the second
  memo,         \* (theme, source) -> what the converter did with it, kept
                \* when the converter is taken to be deterministic
  listing,      \* clean_lo_html's image_files argument: names as listed
  img_map,      \* clean_lo_html's rename map, <<>> before the call
  img_tag,      \* an <img> tag of the fragment: its attributes
  img_out,      \* what rewrite_img made of it, <<>> before the call
  page_text,    \* a reader page that is patched again and again
  fragment,     \* the fragment it is patched with
  patched       \* the page contents written, one for every patch

cfgVars == <<force, dryRun, workers, themeArg>>
runVars == <<work, jobSt, future, results, counters, todo, cur, upd, copied, pending,
            ret, theme_stats, abortCause, calls, patchLog, failedJobs>>
poolVars == <<jobSt, future, tmpdirs>>
archiveVars == <<pages, imgMade, imgFiles, report>>
mainVars == <<results, counters>>
patchVars == <<todo, cur, upd, copied, pending, ret, theme_stats>>
histVars == <<calls, patchLog, failedJobs, snap, run>>
renameVars == <<listing, img_map, img_tag, img_out, page_text, fragment, patched>>
vars == <<force, dryRun, workers, themeArg, pages, phase, work, jobSt, future, tmpdirs,
          results, counters, imgMade, imgFiles, report, todo, cur, upd, copied,
          pending, ret, theme_stats, abortCause, calls, patchLog, failedJobs, snap,
          run, memo, listing, img_map, img_tag, img_out, page_text, fragment,
          patched>>

\* ---------------------------------------------------------------- phase 1
\* the pages of <theme>/read, sorted
ReadDir(t) == SelectSeq(PageOrder, LAMBDA p : ThemeOf(p) = t)

\* mutant: every download link of the page is mapped, not only the first
RECURSIVE MapLinks(_, _, _, _)
MapLinks(m, p, s, i) ==
  IF i > Len(s) THEN m
  ELSE LET key == <<ThemeOf(p), s[i]>>
       IN MapLinks(IF IsFileLink(s[i]) /\ SourceExists(ThemeOf(p), s[i])
                   THEN [k \in DOMAIN m \cup {key} |-> IF k = key THEN p ELSE m[k]]
                   ELSE m,
                   p, s, i + 1)
MapPage_EveryLink(m, p, content) == MapLinks(m, p, content, 1)

\* one iteration of build_mapping's inner loop: mapping[(theme, source)] = page
MapPage(m, p, content) ==
  LET f == FirstLink(content)
      key == <<ThemeOf(p), f>>
  IN IF f # "none" /\ SourceExists(ThemeOf(p), f)
     THEN [k \in DOMAIN m \cup {key} |-> IF k = key THEN p ELSE m[k]]
     ELSE m

RECURSIVE MapPages(_, _, _)
MapPages(m, ps, content) ==
  IF ps = <<>> THEN m
  ELSE MapPages(MapPage(m, Head(ps), content[Head(ps)]), Tail(ps), content)

\* the theme directories build_mapping scans: all of them, or the one
\* --theme names ("None" when the option is absent)
ThemeDirs(themes) ==
  IF themes = "None" THEN ThemeOrder
  ELSE SelectSeq(ThemeOrder, LAMBDA t : t = themes)

RECURSIVE MapThemes(_, _, _)
MapThemes(m, ts, content) ==
  IF ts = <<>> THEN m
  ELSE MapThemes(MapPages(m, ReadDir(Head(ts)), content), Tail(ts), content)

\* build_mapping: every scanned theme, every page of it, in sorted order
build_mapping(themes, content) == MapThemes(<<>>, ThemeDirs(themes), content)

\* mutant: the test of --force is inverted
FilterProcessed_Inverted(m, content, forced) ==
  IF ~forced THEN m
  ELSE LET keep == {k \in DOMAIN m : ~Contains(content[m[k]], Marker)}
       IN [k \in keep |-> m[k]]

\* main(): drop the pages that carry the marker unless --force
FilterProcessed(m, content, forced) ==
  IF forced THEN m
  ELSE LET keep == {k \in DOMAIN m : ~Contains(content[m[k]], Marker)}
       IN [k \in keep |-> m[k]]

\* every (theme, file) key, in sorted order
KeyOrder ==
  LET n == Len(FileOrder)
  IN [i \in 1..(Len(ThemeOrder) * n) |->
        <<ThemeOrder[((i - 1) \div n) + 1], FileOrder[((i - 1) % n) + 1]>>]

\* sorted(mapping.items())
SortedItems(m) == SelectSeq(KeyOrder, LAMBDA k : k \in DOMAIN m)

\* main(): the work items; i counts every item of the sorted mapping
RECURSIVE WorkItems(_, _, _, _)
WorkItems(items, m, i, n) ==
  IF i > Len(items) THEN <<>>
  ELSE LET k == items[i]
           rest == WorkItems(items, m, i + 1, n)
       IN IF Lower(Suffix(k[2])) \notin ConvertibleExts THEN rest
          ELSE <<[theme |-> k[1], source |-> k[2], reader |-> m[k],
                  worker_id |-> (i - 1) % n, index |-> i]>> \o rest

PrepareWork(themes, content, forced, n) ==
  LET m == FilterProcessed(build_mapping(themes, content), content, forced)
      items == WorkItems(SortedItems(m), m, 1, n)
  \* job: the place in the work list, which names the job's temporary directory
  IN [k \in 1..Len(items) |->
        [theme |-> items[k].theme, source |-> items[k].source,
         reader |-> items[k].reader, worker_id |-> items[k].worker_id,
         index |-> items[k].index, job |-> k]]

\* scripts/image_report.json before the first run: written counts the
\* times the file was written, the other fields are its contents less the
\* timestamp
NoReport ==
  [written |-> 0, dry_run |-> FALSE, themes |-> <<>>, errors |-> 0,
   skipped_no_images |-> 0, files |-> <<>>]

\* the state main() starts from, whatever the flags and the corpus
Fresh ==
  /\ pages \in Corpora
  /\ phase = "start"
  /\ work = <<>>
  /\ jobSt = <<>>
  /\ future = <<>>
  /\ tmpdirs = {}
  /\ results = <<>>
  /\ counters = [completed |-> 0, errors |-> 0, skipped |-> 0, with_images |-> 0]
  /\ imgMade = {p \in Pages : Contains(pages[p], Marker)}
  /\ imgFiles = [p \in Pages |-> IF Contains(pages[p], Marker) THEN (1 :> OldBytes) ELSE <<>>]
  /\ report = NoReport
  /\ todo = <<>>
  /\ cur = 1
  /\ upd = "call"
  /\ copied = 0
  /\ pending = <<>>
  /\ ret = <<0, 0>>
  /\ theme_stats = <<>>
  /\ abortCause = "none"
  /\ calls = [p \in Pages |-> 0]
  /\ patchLog = <<>>
  /\ failedJobs = {}
  /\ snap = [pages |-> pages, imgMade |-> imgMade, imgFiles |-> imgFiles, report |-> report]
  /\ run = 1
  /\ img_map = <<>>
  /\ img_out = <<>>
  /\ patched = <<>>

\* one run of the pipeline, with any flags
Init ==
  /\ force \in BOOLEAN
  /\ dryRun \in BOOLEAN
  /\ workers \in 1..MaxWorkers
  /\ themeArg \in {"None"} \cup Themes
  /\ memo = [deterministic |-> FALSE, did |-> <<>>]
  /\ listing = <<>>
  /\ img_tag = <<>>
  /\ page_text = <<>>
  /\ fragment = <<>>
  /\ Fresh

\* main() up to the submission of the jobs to the executor
BuildWork ==
  /\ phase = "start"
  /\ work' = PrepareWork(themeArg, pages, force, workers)
  /\ jobSt' = [i \in 1..Len(work') |-> "queued"]
  /\ future' = [i \in 1..Len(work') |-> NewResult(work'[i])]
  /\ phase' = "convert"
  /\ UNCHANGED <<cfgVars, renameVars, memo, archiveVars, tmpdirs, mainVars, patchVars, abortCause, histVars>>

\* ---------------------------------------------------------------- phase 2
Jobs == 1..Len(work)
Running == {i \in Jobs : jobSt[i] = "running"}
AllFinished == \A i \in Jobs : jobSt[i] \in {"finished", "consumed"}
AllConsumed == \A i \in Jobs : jobSt[i] = "consumed"

\* mutant: a queued job is started whatever the number of running jobs
CanStart_Unbounded(i) ==
  /\ phase \in {"convert", "shutdown"}
  /\ i \in Jobs
  /\ jobSt[i] = "queued"
  /\ \A j \in 1..(i - 1) : jobSt[j] # "queued"

\* a pool thread takes the oldest queued job and enters convert_one:
\* tempfile.mkdtemp creates the job's directory, or raises
CanStart(i) ==
  /\ phase \in {"convert", "shutdown"}
  /\ i \in Jobs
  /\ jobSt[i] = "queued"
  /\ \A j \in 1..(i - 1) : jobSt[j] # "queued"
  /\ Cardinality(Running) < workers

JobStart(i) ==
  /\ CanStart(i)
  /\ jobSt' = [jobSt EXCEPT ![i] = "running"]
  /\ tmpdirs' = tmpdirs \cup {i}
  /\ UNCHANGED <<cfgVars, renameVars, memo, archiveVars, phase, work, future, mainVars, patchVars, abortCause, histVars>>

JobMkdtempFails(i) ==
  /\ CanStart(i)
  /\ jobSt' = [jobSt EXCEPT ![i] = "finished"]
  /\ future' = [future EXCEPT ![i] = RaisedResult(work[i])]
  /\ failedJobs' = failedJobs \cup {i}
  /\ UNCHANGED <<cfgVars, renameVars, memo, archiveVars, phase, work, tmpdirs, mainVars, patchVars,
                 abortCause, calls, patchLog, snap, run>>

\* the converter call ends and convert_one runs to its return
JobFinish(i) ==
  /\ phase \in {"convert", "shutdown"}
  /\ i \in Jobs
  /\ jobSt[i] = "running"
  /\ \E b \in Behaviours :
       LET result == convert_one(work[i], b)
           key == <<work[i].theme, work[i].source>>
       IN /\ key \in DOMAIN memo.did => b = memo.did[key]
          /\ future' = [future EXCEPT ![i] = result]
          /\ tmpdirs' = IF result.keeps_tmpdir THEN tmpdirs ELSE tmpdirs \ {i}
          /\ memo' = IF memo.deterministic
                     THEN [memo EXCEPT !.did =
                             [k \in DOMAIN memo.did \cup {key} |->
                                IF k = key THEN b ELSE memo.did[k]]]
                     ELSE memo
          /\ failedJobs' = IF Fails(b) THEN failedJobs \cup {i} ELSE failedJobs
  /\ jobSt' = [jobSt EXCEPT ![i] = "finished"]
  /\ UNCHANGED <<cfgVars, renameVars, archiveVars, phase, work, mainVars, patchVars, abortCause,
                 calls, patchLog, snap, run>>

\* how main classifies a result
Classify(result) ==
  IF Truthy(result.error) THEN "error"
  ELSE IF result.skipped THEN "skipped"
  ELSE "with_images"

\* one iteration of the as_completed loop
Consume(i) ==
  /\ phase = "convert"
  /\ i \in Jobs
  /\ jobSt[i] = "finished"
  /\ jobSt' = [jobSt EXCEPT ![i] = "consumed"]
  /\ future' = [future EXCEPT ![i] = NewResult(work[i])]
  /\ LET result == future[i]
         c == [counters EXCEPT !.completed = @ + 1]
     IN IF result.raised
        THEN \* future.result() re-raises: main leaves the with block
             /\ phase' = "shutdown"
             /\ abortCause' = "job raised"
             /\ counters' = c
             /\ results' = results
        ELSE /\ phase' = phase
             /\ abortCause' = abortCause
             /\ counters' =
                  CASE Classify(result) = "error" -> [c EXCEPT !.errors = @ + 1]
                    [] Classify(result) = "skipped" -> [c EXCEPT !.skipped = @ + 1]
                    [] OTHER -> [c EXCEPT !.with_images = @ + 1]
             /\ results' = IF Classify(result) = "with_images"
                           THEN Append(results, result) ELSE results
  /\ UNCHANGED <<cfgVars, renameVars, memo, archiveVars, work, tmpdirs, patchVars, histVars>>

\* the executor's shutdown(wait=True) returns and the exception leaves main
ShutdownDone ==
  /\ phase = "shutdown"
  /\ AllFinished
  /\ phase' = "aborted"
  /\ UNCHANGED <<cfgVars, renameVars, memo, archiveVars, work, poolVars, mainVars, patchVars, abortCause, histVars>>

\* mutant: patching starts as soon as one result with images is in
ConversionOver_Eager == results # <<>>

\* the with block ends once as_completed has yielded every future
ConversionOver == AllConsumed

\* main() between the conversion loop and the patch loop
ConvertDone ==
  /\ phase = "convert"
  /\ ConversionOver
  /\ IF results = <<>>
     THEN /\ phase' = "done"   \* "Nothing to update": return
          /\ todo' = todo
     ELSE /\ phase' = "patch"
          /\ todo' = SortByReader(results, PageOrder)
  /\ cur' = 1
  /\ upd' = "call"
  /\ UNCHANGED <<cfgVars, renameVars, memo, archiveVars, work, poolVars, mainVars, copied, pending, ret,
                 theme_stats, abortCause, histVars>>

\* ---------------------------------------------------------------- phase 3
InPatchLoop == phase = "patch" /\ cur <= Len(todo)

NoStats == [updated |-> 0, images |-> 0, before |-> 0, after |-> 0]
\* if theme not in theme_stats: theme_stats[theme] = {...}
WithTheme(ts, theme) ==
  IF theme \in DOMAIN ts THEN ts
  ELSE [t \in DOMAIN ts \cup {theme} |-> IF t = theme THEN NoStats ELSE ts[t]]

\* update_reader_page up to its first copy, or to an early return
UpdateBegin ==
  /\ InPatchLoop
  /\ upd = "call"
  /\ LET result == todo[cur]
         page == result.reader
         page_content == pages[page]
         before_size == Size(page_content)
         loc == Locate(page_content)
     IN /\ theme_stats' = WithTheme(theme_stats, result.theme)
        /\ calls' = [calls EXCEPT ![page] = @ + 1]
        /\ IF dryRun
           THEN /\ ret' = DryRunEstimate(before_size, result)
                /\ upd' = "returned"
                /\ UNCHANGED <<phase, abortCause, imgMade, pending>>
           ELSE IF ~result.has_body
           THEN \* result['body_html'] raises KeyError
                /\ phase' = "aborted"
                /\ abortCause' = "KeyError"
                /\ UNCHANGED <<ret, upd, imgMade, pending>>
           ELSE IF ~loc.found
           THEN /\ ret' = <<before_size, before_size>>
                /\ upd' = "returned"
                /\ UNCHANGED <<phase, abortCause, imgMade, pending>>
           ELSE /\ pending' = NewContent(page_content, loc, result.body_html)
                /\ imgMade' = imgMade \cup {page}
                /\ ret' = <<before_size, 0>>
                /\ upd' = "copy"
                /\ UNCHANGED <<phase, abortCause>>
  /\ copied' = 0
  /\ UNCHANGED <<cfgVars, renameVars, memo, pages, imgFiles, report, work, poolVars, mainVars, todo, cur,
                 patchLog, failedJobs, snap, run>>

\* shutil.copy2 of the next image into img/<slug>/
CopyImage ==
  /\ InPatchLoop
  /\ upd = "copy"
  /\ copied < Len(todo[cur].image_files)
  /\ LET result == todo[cur]
         pair == result.image_files[copied + 1]
         dir == imgFiles[result.reader]
     IN imgFiles' = [imgFiles EXCEPT ![result.reader] =
          [n \in DOMAIN dir \cup {pair[2]} |->
             IF n = pair[2] THEN Bytes(result, pair[1]) ELSE dir[n]]]
  /\ copied' = copied + 1
  /\ UNCHANGED <<cfgVars, renameVars, memo, pages, imgMade, report, phase, work, poolVars, mainVars, todo,
                 cur, upd, pending, ret, theme_stats, abortCause, histVars>>

\* mutant: a copy that fails is passed over and the loop goes on
CopyFails_Ignored ==
  /\ InPatchLoop
  /\ upd = "copy"
  /\ copied < Len(todo[cur].image_files)
  /\ copied' = copied + 1
  /\ UNCHANGED <<cfgVars, renameVars, memo, archiveVars, phase, work, poolVars, mainVars, todo, cur,
                 upd, pending, ret, theme_stats, abortCause, histVars>>

\* shutil.copy2 raises (disk full, unreadable file): main() stops
CopyFails ==
  /\ InPatchLoop
  /\ upd = "copy"
  /\ copied < Len(todo[cur].image_files)
  /\ phase' = "aborted"
  /\ abortCause' = "copy failed"
  /\ UNCHANGED <<cfgVars, renameVars, memo, archiveVars, work, poolVars, mainVars, patchVars, histVars>>

\* every image is copied: the page is written and update_reader_page returns
WritePage ==
  /\ InPatchLoop
  /\ upd = "copy"
  /\ copied = Len(todo[cur].image_files)
  /\ LET result == todo[cur]
         page == result.reader
     IN /\ pages' = [pages EXCEPT ![page] = pending]
        /\ ret' = <<ret[1], Size(pending) + TotalImgSize(result.image_files)>>
        /\ patchLog' =
             [q \in DOMAIN patchLog \cup {page} |->
                IF q = page
                THEN [orig |-> pages[page], loc |-> Locate(pages[page]),
                      result |-> result]
                ELSE patchLog[q]]
  /\ upd' = "returned"
  /\ UNCHANGED <<cfgVars, renameVars, memo, imgMade, imgFiles, report, phase, work, poolVars, mainVars,
                 todo, cur, copied, pending, theme_stats, abortCause, calls, failedJobs,
                 snap, run>>

\* the rest of the loop body: the statistics, and the temporary directory
LoopTail ==
  /\ InPatchLoop
  /\ upd = "returned"
  /\ LET result == todo[cur]
         s == theme_stats[result.theme]
     IN /\ theme_stats' = [theme_stats EXCEPT ![result.theme] =
             [updated |-> s.updated + 1, images |-> s.images + result.num_images,
              before |-> s.before + ret[1], after |-> s.after + ret[2]]]
        /\ tmpdirs' = IF result.keeps_tmpdir THEN tmpdirs \ {result.job} ELSE tmpdirs
  /\ cur' = cur + 1
  /\ upd' = "call"
  /\ UNCHANGED <<cfgVars, renameVars, memo, archiveVars, phase, work, jobSt, future, mainVars, todo, copied,
                 pending, ret, abortCause, histVars>>

\* ---------------------------------------------------------------- phase 4
\* the 'files' list of the report
ReportFiles(rs) ==
  [k \in 1..Len(rs) |->
     [theme |-> rs[k].theme, source |-> rs[k].source, reader |-> rs[k].reader,
      num_images |-> rs[k].num_images]]

\* the summary and the report file, written whatever --dry-run says
WriteReport ==
  /\ phase = "patch"
  /\ cur > Len(todo)
  /\ report' = [written |-> report.written + 1, dry_run |-> dryRun,
                themes |-> theme_stats, errors |-> counters.errors,
                skipped_no_images |-> counters.skipped,
                files |-> ReportFiles(SortByReader(results, PageOrder))]
  /\ phase' = "done"
  /\ UNCHANGED <<cfgVars, renameVars, memo, pages, imgMade, imgFiles, work, poolVars, mainVars, patchVars,
                 abortCause, histVars>>

\* the steps of a run in which no file operation of the script fails
Steps ==
  \/ BuildWork
  \/ \E i \in Jobs : JobStart(i)
  \/ \E i \in Jobs : JobFinish(i)
  \/ \E i \in Jobs : Consume(i)
  \/ ConvertDone
  \/ UpdateBegin
  \/ CopyImage
  \/ WritePage
  \/ LoopTail
  \/ WriteReport

Next ==
  \/ Steps
  \/ \E i \in Jobs : JobMkdtempFails(i)
  \/ ShutdownDone
  \/ CopyFails

Spec == Init /\ [][Next]_vars

\* --------------------------------- one run, the converter's doing recorded
\* every theme, with or without --force and --dry-run; what the converter
\* does with each source file is kept in memo
InitFixed ==
  /\ force \in BOOLEAN
  /\ dryRun \in BOOLEAN
  /\ workers \in 1..MaxWorkers
  /\ themeArg = "None"
  /\ memo = [deterministic |-> TRUE, did |-> <<>>]
  /\ listing = <<>>
  /\ img_tag = <<>>
  /\ page_text = <<>>
  /\ fragment = <<>>
  /\ Fresh

SpecFixed == InitFixed /\ [][Next]_vars

\* ------------------------------------------- one run that is not starved
\* the regular corpus, no --force, no --dry-run; the threads of the pool and
\* the main thread keep running, and a converter call ends (it is given a
\* timeout); no file operation is bound to fail
InitLive ==
  /\ force = FALSE
  /\ dryRun = FALSE
  /\ workers \in 1..MaxWorkers
  /\ themeArg = "None"
  /\ memo = [deterministic |-> FALSE, did |-> <<>>]
  /\ listing = <<>>
  /\ img_tag = <<>>
  /\ page_text = <<>>
  /\ fragment = <<>>
  /\ pages = BaseCorpus
  /\ Fresh

Fairness ==
  /\ WF_vars(BuildWork)
  /\ WF_vars(\E i \in Jobs : JobStart(i))
  /\ WF_vars(\E i \in Jobs : JobFinish(i))
  /\ WF_vars(\E i \in Jobs : Consume(i))
  /\ WF_vars(ShutdownDone)
  /\ WF_vars(ConvertDone)

SpecLive == InitLive /\ [][Next]_vars /\ Fairness

\* ----------------------------------------------- the rename map on its own
\* clean_lo_html is given the image files of a directory in any order
InitRename ==
  /\ force = FALSE
  /\ dryRun = FALSE
  /\ workers = 1
  /\ themeArg = "None"
  /\ memo = [deterministic |-> FALSE, did |-> <<>>]
  /\ listing \in Listings
  /\ img_tag = <<>>
  /\ page_text = <<>>
  /\ fragment = <<>>
  /\ pages = BaseCorpus
  /\ Fresh

BuildImgMap ==
  /\ img_map = <<>>
  /\ listing # <<>>
  /\ img_map' = RenameMap(listing)
  /\ UNCHANGED <<cfgVars, memo, archiveVars, phase, work, poolVars, mainVars, patchVars,
                 abortCause, histVars, listing, img_tag, img_out, page_text, fragment,
                 patched>>

NextRename == BuildImgMap

SpecRename == InitRename /\ [][NextRename]_vars

\* ------------------------------------------ the rewriting of one <img> tag
InitImg ==
  /\ force = FALSE
  /\ dryRun = FALSE
  /\ workers = 1
  /\ themeArg = "None"
  /\ memo = [deterministic |-> FALSE, did |-> <<>>]
  /\ listing = <<>>
  /\ img_tag \in ImgTags
  /\ page_text = <<>>
  /\ fragment = <<>>
  /\ pages = BaseCorpus
  /\ Fresh

RewriteImg ==
  /\ img_out = <<>>
  /\ img_tag # <<>>
  /\ img_out' = rewrite_img(img_tag)
  /\ UNCHANGED <<cfgVars, memo, archiveVars, phase, work, poolVars, mainVars, patchVars,
                 abortCause, histVars, listing, img_map, img_tag, page_text, fragment,
                 patched>>

NextImg == RewriteImg

SpecImg == InitImg /\ [][NextImg]_vars

\* --------------------------------------------- a page patched repeatedly
\* the fragments: any mix of text and </div> tags up to MaxFrag tokens
RepatchBodies == UNION {[1..n -> {"BODY", CloseTag}] : n \in 0..MaxFrag}
RepatchPages ==
  {Plain("a.doc"), Marked("a.doc"), NoContainer("a.doc"), LinkInside("a.doc"),
   Nested("a.doc"), NoClose("a.doc"), LinkBefore("a.doc"), TwoLinks("a.doc", "d.odt"),
   NoLink}

InitRepatch ==
  /\ force = TRUE
  /\ dryRun = FALSE
  /\ workers = 1
  /\ themeArg = "None"
  /\ memo = [deterministic |-> FALSE, did |-> <<>>]
  /\ listing = <<>>
  /\ img_tag = <<>>
  /\ page_text \in RepatchPages
  /\ fragment \in RepatchBodies
  /\ pages = BaseCorpus
  /\ Fresh

\* update_reader_page, dry_run=False, on page_text with fragment
Repatch ==
  /\ page_text # <<>>
  /\ Len(patched) < MaxPatches
  /\ Locate(page_text).found
  /\ page_text' = NewContent(page_text, Locate(page_text), fragment)
  /\ patched' = Append(patched, page_text')
  /\ UNCHANGED <<cfgVars, memo, archiveVars, phase, work, poolVars, mainVars, patchVars,
                 abortCause, histVars, listing, img_map, img_tag, img_out, fragment>>

NextRepatch == Repatch

SpecRepatch == InitRepatch /\ [][NextRepatch]_vars

\* ------------------------------------------------- the pipeline run twice
\* no --force, no --dry-run, no --theme, and a converter that does the same thing
\* every time it is given the same source file
InitTwice ==
  /\ force = FALSE
  /\ dryRun = FALSE
  /\ workers \in 1..MaxWorkers
  /\ themeArg = "None"
  /\ memo = [deterministic |-> TRUE, did |-> <<>>]
  /\ listing = <<>>
  /\ img_tag = <<>>
  /\ page_text = <<>>
  /\ fragment = <<>>
  /\ Fresh

\* the first run has ended normally: main() is started again on the archive
\* as it is now (a temporary directory left behind stays where it is)
RunAgain ==
  /\ phase = "done"
  /\ run = 1
  /\ run' = 2
  /\ phase' = "start"
  /\ work' = <<>>
  /\ jobSt' = <<>>
  /\ future' = <<>>
  /\ results' = <<>>
  /\ counters' = [completed |-> 0, errors |-> 0, skipped |-> 0, with_images |-> 0]
  /\ todo' = <<>>
  /\ cur' = 1
  /\ upd' = "call"
  /\ copied' = 0
  /\ pending' = <<>>
  /\ ret' = <<0, 0>>
  /\ theme_stats' = <<>>
  /\ calls' = [p \in Pages |-> 0]
  /\ patchLog' = <<>>
  /\ failedJobs' = {}
  /\ snap' = [pages |-> pages, imgMade |-> imgMade, imgFiles |-> imgFiles, report |-> report]
  /\ UNCHANGED <<cfgVars, renameVars, memo, archiveVars, tmpdirs, abortCause>>

\* both runs go to completion: no file operation fails in them
NextTwice == Steps \/ RunAgain

SpecTwice == InitTwice /\ [][NextTwice]_vars

\* ------------------------------------------------------------------ claims
\* the results convert_one has returned and main has not dropped
Returned == {future[i] : i \in {k \in Jobs : jobSt[k] = "finished" /\ ~future[k].raised}}
Collected == {results[k] : k \in 1..Len(results)}
WithImages == {r \in Returned \cup Collected : r.image_files # <<>>}

\* every image of the result lies in the page's directory under its new name
Copied(r) ==
  \A k \in 1..Len(r.image_files) :
    /\ r.image_files[k][2] \in DOMAIN imgFiles[r.reader]
    /\ imgFiles[r.reader][r.image_files[k][2]] = Bytes(r, r.image_files[k][1])

ArchiveUntouched ==
  /\ pages = snap.pages
  /\ imgMade = snap.imgMade
  /\ imgFiles = snap.imgFiles
  /\ report = snap.report

\* C1: running the pipeline twice without --force and without --dry-run,
\* with a converter that repeats itself, the second run patches no page and
\* copies no image: all through the second run every reader page and every
\* img/<slug>/ directory is as the first run left it.
C1_SecondRunChangesNothing ==
  run = 2 => (pages = snap.pages /\ imgFiles = snap.imgFiles /\ imgMade = snap.imgMade)

\* C2, as claimed: the temporary directory of a result that has images is
\* deleted only after every one of its images has been copied into the
\* page's img/<slug>/ directory.
C2_TmpdirDeletedOnlyAfterCopy ==
  \A r \in WithImages : r.job \notin tmpdirs => Copied(r)

\* C2, amended: the temporary directory of a result that has images is
\* deleted only after update_reader_page has returned normally for it; it
\* is then deleted with every image copied, except in a dry run and for a
\* page without a splice region, where nothing is copied at all. A copy
\* that fails leaves the directory in place.
C2_TmpdirDeletedOnlyAfterUpdate ==
  \A r \in WithImages :
    r.job \notin tmpdirs =>
      /\ \E k \in 1..(cur - 1) : k <= Len(todo) /\ todo[k] = r
      /\ Copied(r) \/ dryRun \/ ~Locate(snap.pages[r.reader]).found
      /\ (dryRun \/ ~Locate(snap.pages[r.reader]).found) =>
           imgFiles[r.reader] = snap.imgFiles[r.reader]

C2_Witness ==
  /\ ~dryRun
  /\ \E r \in WithImages :
       /\ r.job \notin tmpdirs
       /\ Len(r.image_files) = MaxImages
       /\ Copied(r)
       /\ imgFiles[r.reader] # snap.imgFiles[r.reader]

\* C3, as claimed: in a run with --dry-run nothing of the archive is ever
\* created, modified or deleted: the reader pages, the img/<slug>/
\* directories and scripts/image_report.json stay as they were.
C3_DryRunWritesNothing == dryRun => ArchiveUntouched

\* C4: in every state of a run, also the one an exception leaves behind, a
\* page that carries the marker has a non-empty img/<slug>/ directory, and
\* a page written in this run has in it every renamed image of its result.
C4_MarkedPageHasImages ==
  \A p \in Pages :
    Contains(pages[p], Marker) =>
      /\ p \in imgMade
      /\ DOMAIN imgFiles[p] # {}
      /\ p \in DOMAIN patchLog => Copied(patchLog[p].result)

C4_Witness ==
  /\ phase = "aborted"
  /\ abortCause = "copy failed"
  /\ \E p \in DOMAIN patchLog :
       /\ ~Contains(snap.pages[p], Marker)
       /\ Contains(pages[p], Marker)
       /\ Len(patchLog[p].result.image_files) = MaxImages

\* C5: a page that was rewritten is original[:content_start] + marker +
\* fragment + original[close_idx:], with content_start <= close_idx: all up
\* to the end of the container's opening tag and all from the chosen
\* closing tag on is as it was.
C5_PatchIsContained ==
  \A p \in DOMAIN patchLog :
    LET orig == patchLog[p].orig
        cs == patchLog[p].loc.content_start
        ci == patchLog[p].loc.close_idx
        body == patchLog[p].result.body_html
        new == pages[p]
    IN /\ 1 <= cs /\ cs <= ci /\ ci < Len(orig)
       /\ orig[cs] = OpenTag
       /\ orig[ci + 1] = CloseTag
       /\ Len(new) = cs + 1 + Len(body) + (Len(orig) - ci)
       /\ SubSeq(new, 1, cs) = SubSeq(orig, 1, cs)
       /\ new[cs + 1] = Marker
       /\ SubSeq(new, cs + 2, cs + 1 + Len(body)) = body
       /\ SubSeq(new, cs + 2 + Len(body), Len(new)) = SubSeq(orig, ci + 1, Len(orig))

C5_Witness ==
  \E p \in DOMAIN patchLog :
    /\ patchLog[p].loc.close_idx > patchLog[p].loc.content_start + 1
    /\ patchLog[p].loc.close_idx + 1 < Len(patchLog[p].orig)
    /\ pages[p] # patchLog[p].orig

\* the corpus with every marker replaced by plain text
Unmarked(content) ==
  [p \in Pages |-> [k \in 1..Len(content[p]) |->
     IF content[p][k] = Marker THEN "TXT" ELSE content[p][k]]]

\* C6: without --force no page that carries the marker gets a job or is
\* patched; with --force the work list is the one the same corpus would get
\* without its markers.
C6_MarkerFiltering ==
  phase # "start" =>
    /\ ~force =>
         /\ \A i \in Jobs : ~Contains(snap.pages[work[i].reader], Marker)
         /\ \A p \in Pages : calls[p] > 0 => ~Contains(snap.pages[p], Marker)
    /\ force => work = PrepareWork(themeArg, Unmarked(snap.pages), FALSE, workers)

C6_Witness ==
  /\ force
  /\ phase = "done"
  /\ \E p \in DOMAIN patchLog : Contains(snap.pages[p], Marker)

\* C7: no two results of a run target the same reader page, and
\* update_reader_page is applied to a page at most once, also when several
\* pages link to the same source file.
C7_PatchedAtMostOnce ==
  /\ \A i, j \in Jobs : work[i].reader = work[j].reader => i = j
  /\ \A i, j \in 1..Len(results) : results[i].reader = results[j].reader => i = j
  /\ \A p \in Pages : calls[p] <= 1

C7_Witness ==
  /\ phase = "done"
  /\ FirstLink(snap.pages["p1"]) = FirstLink(snap.pages["p2"])
  /\ calls["p2"] = 1
  /\ "p2" \in DOMAIN patchLog

\* every result that has images went through update_reader_page
AllPatched == phase \in {"patch", "done"} /\ cur > Len(todo)

\* C8, as claimed: when a job of the run has failed, main() is not stopped
\* by it: every job's result is collected, every result with images is
\* patched, and the error count is the number of failed jobs. (A run that
\* an image copy stopped is not held against the claim.)
C8_JobFailureNeverAborts ==
  (phase \in {"done", "aborted"} /\ failedJobs # {} /\ abortCause # "copy failed") =>
    /\ phase = "done"
    /\ AllConsumed
    /\ results # <<>> => AllPatched
    /\ counters.errors = Cardinality(failedJobs)

ShapeError(r) ==
  r.error # "None" /\ ~r.skipped /\ ~r.has_body /\ r.image_files = <<>>
ShapeSkipped(r) ==
  r.error = "None" /\ r.skipped /\ ~r.has_body /\ r.image_files = <<>>
ShapeSuccess(r) ==
  r.error = "None" /\ ~r.skipped /\ r.has_body /\ Len(r.image_files) >= 1

\* C9, as claimed: a result convert_one returns is exactly one of error,
\* skipped and success, main classifies it into that class, and only
\* success results are handed to the Page Patcher.
C9_ExactlyOneOutcome ==
  /\ \A r \in Returned :
       /\ ShapeError(r) \/ ShapeSkipped(r) \/ ShapeSuccess(r)
       /\ ShapeError(r) <=> Classify(r) = "error"
       /\ ShapeSkipped(r) <=> Classify(r) = "skipped"
       /\ ShapeSuccess(r) <=> Classify(r) = "with_images"
  /\ \A r \in Collected : ShapeSuccess(r)

\* C10: nothing of the archive is written, and update_reader_page is not
\* called, while a job is waiting, running or not yet collected; the pages
\* are then patched one at a time, in the order of todo.
C10_PhaseSeparation ==
  /\ (\/ pages # snap.pages \/ imgMade # snap.imgMade \/ imgFiles # snap.imgFiles
      \/ report # snap.report \/ \E p \in Pages : calls[p] > 0)
       => \A i \in Jobs : jobSt[i] = "consumed"
  /\ \A p \in Pages :
       calls[p] > 0 => \E k \in 1..Len(todo) : k <= cur /\ todo[k].reader = p
  /\ \A p \in DOMAIN patchLog :
       \E k \in 1..Len(todo) : k <= cur /\ todo[k].reader = p

C10_Witness ==
  /\ Len(work) >= 2
  /\ workers >= 2
  /\ Cardinality(DOMAIN patchLog) >= 2

\* ---- what the run must end in, from the work list and the recorded
\* ---- doing of the converter alone
\* the result of job i
Outcome(i) == convert_one(work[i], memo.did[<<work[i].theme, work[i].source>>])
ExpSet == {Outcome(i) : i \in {j \in Jobs : Classify(Outcome(j)) = "with_images"}}
\* the results E in ascending order of their reader page
ExpOrder(E) == SelectSeq(PageOrder, LAMBDA p : \E r \in E : r.reader = p)
ExpTodo(E) ==
  LET order == ExpOrder(E)
  IN [k \in 1..Len(order) |-> CHOOSE r \in E : r.reader = order[k]]
ExpSpliced(r) == ~dryRun /\ Locate(snap.pages[r.reader]).found
ExpPage(E, p) ==
  IF \E r \in E : r.reader = p /\ ExpSpliced(r)
  THEN LET r == CHOOSE x \in E : x.reader = p
       IN NewContent(snap.pages[p], Locate(snap.pages[p]), r.body_html)
  ELSE snap.pages[p]
ExpImages(E, p) ==
  IF \E r \in E : r.reader = p /\ ExpSpliced(r)
  THEN LET r == CHOOSE x \in E : x.reader = p
           old == snap.imgFiles[p]
           new == {r.image_files[k][2] : k \in 1..Len(r.image_files)}
       IN [n \in DOMAIN old \cup new |->
             IF n \in new
             THEN Bytes(r, r.image_files[CHOOSE k \in 1..Len(r.image_files) :
                                           r.image_files[k][2] = n][1])
             ELSE old[n]]
  ELSE snap.imgFiles[p]
ExpAfter(E, r) ==
  LET before == Size(snap.pages[r.reader])
  IN IF dryRun THEN DryRunEstimate(before, r)[2]
     ELSE IF ~ExpSpliced(r) THEN before
     ELSE Size(ExpPage(E, r.reader)) + TotalImgSize(r.image_files)
ExpStats(E, T) ==
  [t \in {r.theme : r \in E} |->
     LET rs == SelectSeq(T, LAMBDA r : r.theme = t)
     IN [updated |-> Len(rs),
         images |-> SumSeq([k \in 1..Len(rs) |-> rs[k].num_images]),
         before |-> SumSeq([k \in 1..Len(rs) |-> Size(snap.pages[rs[k].reader])]),
         after |-> SumSeq([k \in 1..Len(rs) |-> ExpAfter(E, rs[k])])]]
ExpReport(E, T) ==
  IF E = {} THEN snap.report
  ELSE [written |-> snap.report.written + 1, dry_run |-> dryRun, themes |-> ExpStats(E, T),
        errors |-> Cardinality({i \in Jobs : Classify(Outcome(i)) = "error"}),
        skipped_no_images |-> Cardinality({i \in Jobs : Classify(Outcome(i)) = "skipped"}),
        files |-> [k \in 1..Len(T) |->
                     [theme |-> T[k].theme, source |-> T[k].source,
                      reader |-> T[k].reader, num_images |-> T[k].num_images]]]
ExpFinal(E, T) ==
  /\ todo = T
  /\ pages = [p \in Pages |-> ExpPage(E, p)]
  /\ imgFiles = [p \in Pages |-> ExpImages(E, p)]
  /\ imgMade = snap.imgMade \cup {r.reader : r \in {x \in E : ExpSpliced(x)}}
  /\ report = ExpReport(E, T)

\* C11: with the work list and what the converter does with each source
\* fixed, the order in which the jobs start, finish and are collected does
\* not show in the outcome: the results are patched in ascending order of
\* their reader page, and a run that ends normally leaves the reader pages,
\* the image directories and the report (less its timestamp) that the work
\* list and the converter's doing determine; a run that a raising job
\* stopped leaves the archive as it was.
C11_OrderIndependence ==
  /\ (phase = "patch" /\ cur = 1 /\ upd = "call") => todo = ExpTodo(ExpSet)
  /\ phase = "done" => ExpFinal(ExpSet, ExpTodo(ExpSet))
  /\ (phase = "aborted" /\ abortCause = "job raised") => ArchiveUntouched

C11_Witness ==
  /\ phase = "done"
  /\ ~dryRun
  /\ Len(results) >= 2
  /\ results # todo
  /\ \A k \in 1..Len(todo) : pages[todo[k].reader] # snap.pages[todo[k].reader]
  /\ report.written = 1

\* C12, as claimed: no two jobs that are running at the same time use the
\* same converter profile directory /tmp/lo_profile_<worker_id>.
C12_ExclusiveProfile ==
  \A i, j \in Running : work[i].worker_id = work[j].worker_id => i = j

\* the result went through the whole loop body of the patch phase
Processed(r) == \E k \in 1..(cur - 1) : k <= Len(todo) /\ todo[k] = r

\* C13, as claimed: a job's temporary directory is its own; it is gone when
\* the job returns an error or a skipped result; for a result with images
\* it exists until the Page Patcher has processed the result; and when the
\* run has ended, normally or not, no temporary directory remains.
C13_TmpdirLifecycle ==
  /\ \A i \in tmpdirs : jobSt[i] = "running" \/ \E r \in WithImages : r.job = i
  /\ \A r \in WithImages : ~Processed(r) => r.job \in tmpdirs
  /\ phase \in {"done", "aborted"} => tmpdirs = {}

\* the place of a name among the names listed, in lexicographic order
LexRank(name) ==
  1 + Cardinality({k \in 1..Len(listing) : StrLess(listing[k], name)})
\* every order in which the same names can be listed
SameNames(l) ==
  /\ Len(l) = Len(listing)
  /\ {l[k] : k \in 1..Len(l)} = {listing[k] : k \in 1..Len(listing)}
ThreeDigits(i) == <<DigitChar(i \div 100), DigitChar((i \div 10) % 10), DigitChar(i % 10)>>

\* C14: the rename map of n listed names depends on the set of names only,
\* not on the order they are listed in, and maps the i-th name in
\* lexicographic order to "img", i as three digits, and the name's
\* extension, ".png" for a name without one; the new names are img001 up to
\* img00n, each given once.
C14_DenseRenaming ==
  img_map # <<>> =>
    /\ DOMAIN img_map = {listing[k] : k \in 1..Len(listing)}
    /\ \A l \in Listings : SameNames(l) => RenameMap(l) = img_map
    /\ \A name \in DOMAIN img_map :
         LET i == LexRank(name)
             ext == PathSuffix(name)
         IN img_map[name] = <<"i", "m", "g">> \o ThreeDigits(i) \o
                              (IF ext = <<>> THEN <<".", "p", "n", "g">> ELSE ext)
    /\ {SubSeq(img_map[name], 1, 6) : name \in DOMAIN img_map}
         = {<<"i", "m", "g">> \o ThreeDigits(i) : i \in 1..Len(listing)}
    /\ (/\ <<"p", "i", "c", "t", "u", "r", "e", "2", ".", "p", "n", "g">> \in DOMAIN img_map
        /\ <<"p", "i", "c", "t", "u", "r", "e", "1", ".", "j", "p", "g">> \in DOMAIN img_map
        /\ Len(listing) = 2) =>
         /\ img_map[<<"p", "i", "c", "t", "u", "r", "e", "1", ".", "j", "p", "g">>]
              = <<"i", "m", "g", "0", "0", "1", ".", "j", "p", "g">>
         /\ img_map[<<"p", "i", "c", "t", "u", "r", "e", "2", ".", "p", "n", "g">>]
              = <<"i", "m", "g", "0", "0", "2", ".", "p", "n", "g">>

\* MaxNames names listed out of their sorted order, the two of the claim's
\* example and a name without extension among them
C14_Witness ==
  /\ img_map # <<>>
  /\ Len(listing) = MaxNames
  /\ listing # SortedNames(listing)
  /\ listing[1] = <<"p", "i", "c", "t", "u", "r", "e", "2", ".", "p", "n", "g">>
  /\ listing[2] = <<"p", "i", "c", "t", "u", "r", "e", "1", ".", "j", "p", "g">>
  /\ \E k \in 1..Len(listing) : PathSuffix(listing[k]) = <<>>

\* the page has no container opening tag, or no closing tag behind the
\* first one
Mismatch(s) ==
  \A i \in 1..Len(s) :
    (s[i] = OpenTag /\ \A j \in 1..(i - 1) : s[j] # OpenTag)
      => \A j \in (i + 1)..Len(s) : s[j] # CloseTag
\* update_reader_page has returned for the result in hand
JustReturned == InPatchLoop /\ upd = "returned"
PageUntouched(p) ==
  /\ pages[p] = snap.pages[p]
  /\ imgFiles[p] = snap.imgFiles[p]
  /\ (p \in imgMade) = (p \in snap.imgMade)
  /\ p \notin DOMAIN patchLog

\* C15, as claimed: for a page without container opening tag, or without a
\* closing tag behind it, update_reader_page writes nothing, copies nothing
\* and returns (before, before), whatever the flags.
C15_MismatchReturnsBeforeBefore ==
  \A p \in Pages :
    Mismatch(snap.pages[p]) =>
      /\ PageUntouched(p)
      /\ (JustReturned /\ todo[cur].reader = p) =>
           ret = <<Size(snap.pages[p]), Size(snap.pages[p])>>

\* C15, amended: such a page is never written and gets no image, whatever
\* the flags; without --dry-run, update_reader_page returns (before, before)
\* for it when the result carries a fragment, and main() goes on with the
\* next result: the page is not what stops the run. With --dry-run the
\* structure of the page is not looked at and the estimate is returned.
C15_MismatchLeavesPageUntouched ==
  \A p \in Pages :
    Mismatch(snap.pages[p]) =>
      /\ PageUntouched(p)
      /\ (JustReturned /\ todo[cur].reader = p) =>
           ret = IF dryRun THEN DryRunEstimate(Size(snap.pages[p]), todo[cur])
                 ELSE <<Size(snap.pages[p]), Size(snap.pages[p])>>
      /\ (phase = "aborted" /\ abortCause # "job raised" /\ todo[cur].reader = p) =>
           (abortCause = "KeyError" /\ ~todo[cur].has_body)

C15_Witness ==
  /\ ~dryRun
  /\ phase = "done"
  /\ \E k \in 1..Len(todo) :
       /\ Mismatch(snap.pages[todo[k].reader])
       /\ todo[k].has_body
       /\ k < Len(todo)
       /\ todo[k + 1].reader \in DOMAIN patchLog

\* C16, as claimed: a run that ends normally has written the report exactly
\* once, and the report is not written before the last page is patched.
C16_ReportWrittenOnce ==
  /\ phase = "done" => report.written = snap.report.written + 1
  /\ report # snap.report => (phase = "done" /\ cur > Len(todo))

\* the file's extension, case ignored, is none of .doc, .docx, .rtf, .odt
NotConvertible(f) ==
  \A e \in {".doc", ".docx", ".rtf", ".odt", ".DOC", ".DOCX", ".RTF", ".ODT"} : Suffix(f) # e

\* C17: whatever the flags and whatever page links to it, a source file
\* whose extension is not .doc, .docx, .rtf or .odt (case ignored) gets no
\* job: it is in no work item, no future, no result, and no page is patched
\* for it.
C17_OnlyConvertibleGetJobs ==
  /\ \A i \in Jobs : ~NotConvertible(work[i].source) /\ ~NotConvertible(future[i].source)
  /\ \A k \in 1..Len(results) : ~NotConvertible(results[k].source)
  /\ \A p \in Pages :
       (FirstLink(snap.pages[p]) # "none" /\ NotConvertible(FirstLink(snap.pages[p])))
         => (calls[p] = 0 /\ pages[p] = snap.pages[p])

\* a run under --force in which two pages link to a .pdf and the third page
\* was patched
C17_Witness ==
  /\ force
  /\ themeArg = "None"
  /\ phase = "done"
  /\ Cardinality({p \in Pages : FirstLink(snap.pages[p]) = "c.pdf"}) = 2
  /\ patchLog # <<>>

\* the page's download link names a file that is not on disk
Dangling(p) == FirstLink(snap.pages[p]) = "gone.doc"

\* C18: the mapping has an entry only for a source file that exists on
\* disk; a page whose download link names a missing file gets no entry, no
\* job and no error, and is not patched.
C18_DanglingExcluded ==
  /\ \A k \in DOMAIN build_mapping(themeArg, snap.pages) : k[2] # "gone.doc"
  /\ \A p \in Pages :
       Dangling(p) =>
         /\ \A k \in DOMAIN build_mapping(themeArg, snap.pages) :
              build_mapping(themeArg, snap.pages)[k] # p
         /\ \A i \in Jobs : work[i].reader # p /\ work[i].source # "gone.doc"
         /\ calls[p] = 0
         /\ pages[p] = snap.pages[p]
  /\ counters.errors <= Cardinality({i \in Jobs : jobSt[i] = "consumed"})

\* a run that ended normally, without any error counted, with a page whose
\* link dangles and another page patched
C18_Witness ==
  /\ phase = "done"
  /\ \E p \in Pages : Dangling(p)
  /\ counters.errors = 0
  /\ patchLog # <<>>

\* fragment bytes plus image bytes of a result
EstimatedGrowth(r) ==
  Len(r.body_html) + SumSeq([k \in 1..Len(r.image_files) |-> StatSize(r.image_files[k][1])])
DryRunTouchesNothing ==
  dryRun => (pages = snap.pages /\ imgFiles = snap.imgFiles /\ imgMade = snap.imgMade)

\* C19, as claimed: with dry_run=True update_reader_page returns (before,
\* before + fragment bytes + image bytes) and writes nothing, and the
\* estimated delta is greater than zero for every result with an image.
C19_DryRunDeltaPositive ==
  /\ DryRunTouchesNothing
  /\ (dryRun /\ JustReturned) =>
       LET r == todo[cur]
           before == Len(snap.pages[r.reader])
       IN /\ ret = <<before, before + EstimatedGrowth(r)>>
          /\ Len(r.image_files) >= 1 => ret[2] - ret[1] > 0

\* C19, amended: with dry_run=True update_reader_page returns (before,
\* before + fragment bytes + image bytes) and writes nothing; the estimated
\* delta is never negative, and it is greater than zero exactly when the
\* fragment or one of the image files is not empty.
C19_DryRunEstimate ==
  /\ DryRunTouchesNothing
  /\ (dryRun /\ JustReturned) =>
       LET r == todo[cur]
           before == Len(snap.pages[r.reader])
       IN /\ ret = <<before, before + EstimatedGrowth(r)>>
          /\ ret[2] - ret[1] >= 0
          /\ (ret[2] - ret[1] > 0) =
               (r.body_html # <<>> \/ \E k \in 1..Len(r.image_files) :
                                        StatSize(r.image_files[k][1]) > 0)

C19_Witness ==
  /\ dryRun
  /\ JustReturned
  /\ Len(todo[cur].image_files) = MaxImages
  /\ ret[2] > ret[1] + 1

\* C20: at every moment the number of invocations of convert_one in
\* progress is at most the worker count given with --workers.
C20_BoundedConcurrency ==
  /\ Cardinality(Running) <= workers
  /\ Cardinality(tmpdirs \cap Running) <= workers

\* the pool is full and a job is waiting for a thread
C20_Witness ==
  /\ workers >= 2
  /\ Cardinality(Running) = workers
  /\ \E i \in Jobs : jobSt[i] = "queued"

\* the result stems from an exception caught in convert_one
FromException(r) == r.error \in {"boom", ""}

\* C21, as claimed: an exception raised while a job runs, the creation of
\* its temporary directory included, is caught inside the job: no future
\* holds an exception, and the result is an error result with a reason,
\* which main counts as an error and never hands to the Page Patcher, and
\* whose temporary directory is gone when the job has returned.
C21_ExceptionsBecomeErrors ==
  /\ \A i \in Jobs : jobSt[i] = "finished" => ~future[i].raised
  /\ \A r \in Returned \cup Collected :
       FromException(r) =>
         /\ r.error # ""
         /\ Classify(r) = "error"
         /\ r \notin Collected
         /\ r.job \notin tmpdirs

\* what the converter did in job i
Did(i) == memo.did[<<work[i].theme, work[i].source>>]
NoImagesKept(r) == r.image_files = <<>> /\ ~r.has_body /\ r.num_images = 0

\* C22: in a job in which nothing else raises, the outcome is decided in
\* this order: a timeout gives the error 'Timeout', whatever the output
\* directory holds; else an exit code other than 0 gives the error 'LO exit
\* code' with at most the first 200 characters of stderr, also when HTML
\* and images were produced; else no HTML output gives the error 'No HTML
\* output produced'; else no image file gives skipped; else success with
\* every image file. No result is of two kinds.
C22_ClassificationOrder ==
  \A i \in Jobs :
    (jobSt[i] = "finished" /\ ~future[i].raised /\ Did(i).excAt = "none") =>
      LET b == Did(i)
          r == future[i]
      IN /\ b.timeout =>
              (r.error = "Timeout after 60s" /\ ~r.skipped /\ NoImagesKept(r))
         /\ (~b.timeout /\ b.returncode # 0) =>
              /\ r.error = "LO exit code" /\ ~r.skipped /\ NoImagesKept(r)
              /\ r.stderr_kept <= 200 /\ r.stderr_kept <= b.stderr
              /\ (b.stderr >= 200 => r.stderr_kept = 200)
         /\ (~b.timeout /\ b.returncode = 0 /\ ~b.html) =>
              (r.error = "No HTML output produced" /\ ~r.skipped /\ NoImagesKept(r))
         /\ (~b.timeout /\ b.returncode = 0 /\ b.html /\ b.images = {}) =>
              (r.error = "None" /\ r.skipped /\ NoImagesKept(r))
         /\ (~b.timeout /\ b.returncode = 0 /\ b.html /\ b.images # {}) =>
              /\ r.error = "None" /\ ~r.skipped /\ r.has_body
              /\ r.num_images = Cardinality(b.images)
              /\ {r.image_files[k][1] : k \in 1..Len(r.image_files)} = b.images
         /\ ~(r.error # "None" /\ r.skipped)
         /\ ~(r.error # "None" /\ r.has_body)
         /\ ~(r.skipped /\ r.has_body)

\* a converter that left HTML, images and a long stderr behind, and exited
\* with a code other than 0
C22_Witness ==
  \E i \in Jobs :
    /\ jobSt[i] = "finished"
    /\ ~future[i].raised
    /\ Did(i).returncode = 1 /\ Did(i).html /\ Did(i).images = ImageIds
    /\ Did(i).stderr > 200
    /\ future[i].error = "LO exit code"
    /\ future[i].stderr_kept = 200

\* the step is the end of job i and leaves every other job as it was
OthersUntouched ==
  \A i \in Jobs :
    (jobSt[i] = "running" /\ jobSt'[i] = "finished") =>
      \A j \in Jobs \ {i} :
        /\ jobSt'[j] = jobSt[j]
        /\ future'[j] = future[j]
        /\ (j \in tmpdirs') = (j \in tmpdirs)
ConversionEnded == phase \in {"patch", "done", "aborted"}
\* the jobs a work list can have: one per page at most
JobIds == 1..Len(PageOrder)
JobIs(i, st) == i \in Jobs /\ jobSt[i] = st
JobOver(i) == i \in Jobs /\ jobSt[i] \in {"finished", "consumed"}
NoFutureRaised == \A i \in Jobs : jobSt[i] = "finished" => ~future[i].raised

\* C23, as claimed: every job of the work list ends, and ends by returning
\* a result, never otherwise; the conversion phase comes to an end; and
\* the end of a job, by timeout or not, leaves every other job as it is.
C23_EveryJobReturns ==
  /\ []NoFutureRaised
  /\ <>ConversionEnded
  /\ \A i \in JobIds : JobIs(i, "queued") ~> JobOver(i)
  /\ \A i \in JobIds : JobIs(i, "running") ~> JobOver(i)
  /\ [][OthersUntouched]_vars

\* 0-based offsets of the closing tags of s from offset lo up to hi - 1
ClosersIn(s, lo, hi) == {k \in lo..(hi - 1) : k < Len(s) /\ s[k + 1] = CloseTag}
\* offsets of the download anchors of s from offset lo on
AnchorsFrom(s, lo) == {k \in lo..(Len(s) - 1) : IsFileLink(s[k + 1])}
FirstOf(S) == CHOOSE k \in S : \A m \in S : k <= m
LastOf(S) == CHOOSE k \in S : \A m \in S : k >= m

\* C24, as claimed: for a page that was patched, when a download anchor
\* lies behind the container's opening tag the closing tag chosen is the
\* last one between the end of the opening tag and the first such anchor;
\* without such an anchor it is the first closing tag behind the opening
\* tag; it never lies before the end of the opening tag.
C24_ClosingTagChoice ==
  \A p \in DOMAIN patchLog :
    LET s == patchLog[p].orig
        cs == patchLog[p].loc.content_start
        ci == patchLog[p].loc.close_idx
    IN /\ ci >= cs
       /\ AnchorsFrom(s, cs) # {} =>
            /\ ClosersIn(s, cs, FirstOf(AnchorsFrom(s, cs))) # {}
            /\ ci = LastOf(ClosersIn(s, cs, FirstOf(AnchorsFrom(s, cs))))
       /\ AnchorsFrom(s, cs) = {} =>
            ci = FirstOf(ClosersIn(s, cs, Len(s)))

\* the tag's src attribute names an image of the rename map
SrcInMap(t) ==
  \E k \in 1..Len(t) : t[k].name = "src" /\ SrcBasename(t[k].value) \in {"c.png", "pic 1.png"}

\* C25, as claimed: an <img> tag whose src names no image of the rename
\* map is left exactly as it was; in any other tag the src becomes
\* img/<slug>/<renamed name>, every width, height, border and name
\* attribute is removed, and the other attributes stay as they were, in
\* their order.
C25_ImgRewriting ==
  img_out # <<>> =>
    IF ~SrcInMap(img_tag) THEN img_out = img_tag
    ELSE LET kept == SelectSeq(img_tag, LAMBDA a :
                       a.name \notin {"width", "height", "border", "name"})
         IN /\ Len(img_out) = Len(kept)
            /\ \A k \in 1..Len(kept) :
                 /\ img_out[k].name = kept[k].name
                 /\ kept[k].name # "src" => img_out[k].value = kept[k].value
                 /\ kept[k].name = "src" =>
                      img_out[k].value =
                        <<"img", "slug",
                          IF SrcBasename(kept[k].value) = "c.png" THEN "img001.png"
                          ELSE "img002.png">>

\* the pages of a theme that update_reader_page has written in this run
PatchedIn(theme) == {p \in DOMAIN patchLog : ThemeOf(p) = theme}
RECURSIVE ImagesOf(_)
ImagesOf(ps) ==
  IF ps = {} THEN 0
  ELSE LET p == CHOOSE q \in ps : TRUE
       IN Len(patchLog[p].result.image_files) + ImagesOf(ps \ {p})

\* C26, as claimed: in the report of a run without --dry-run, the 'updated'
\* count of every theme is the number of reader pages of the theme that the
\* run has rewritten, and its 'images' count is the number of images copied
\* for those pages.
C26_ReportCountsMatchPatched ==
  (phase = "done" /\ ~dryRun) =>
    \A theme \in DOMAIN report.themes :
      /\ report.themes[theme].updated = Cardinality(PatchedIn(theme))
      /\ report.themes[theme].images = ImagesOf(PatchedIn(theme))

\* the jobs of the work list that were given worker slot w
JobsOfSlot(w) == {k \in 1..Len(work) : work[k].worker_id = w}

\* C27, as claimed: the k-th job of the work list, counted from 0 over the
\* jobs created, has worker slot k mod pool size, and the numbers of jobs of
\* two slots differ by at most one.
C27_RoundRobinSlots ==
  phase # "start" =>
    /\ \A k \in 1..Len(work) : work[k].worker_id = (k - 1) % workers
    /\ \A v, w \in 0..(workers - 1) :
         Cardinality(JobsOfSlot(v)) - Cardinality(JobsOfSlot(w)) <= 1

\* C28, as claimed: patching an already patched page with the same fragment
\* gives the content the first patch gave, whichever way the closing tag is
\* found and whatever </div> tags the fragment holds.
C28_RepatchIdempotent ==
  \A k \in 2..Len(patched) : patched[k] = patched[1]

\* a page of a scanned theme, without the marker when the run began, whose
\* first download link names a convertible source file that exists
Eligible(p) ==
  /\ themeArg \in {"None", ThemeOf(p)}
  /\ ~Contains(snap.pages[p], Marker)
  /\ FirstLink(snap.pages[p]) # "none"
  /\ SourceExists(ThemeOf(p), FirstLink(snap.pages[p]))
  /\ Lower(Suffix(FirstLink(snap.pages[p]))) \in {".doc", ".docx", ".rtf", ".odt"}

\* C29, as claimed: on a run without --force every such page gets exactly
\* one conversion job, also when another page of its theme links to the
\* same source file.
C29_EveryEligiblePageHasAJob ==
  (phase # "start" /\ ~force) =>
    \A p \in Pages :
      Eligible(p) => Cardinality({i \in Jobs : work[i].reader = p}) = 1

\* the new names that the <img> references of a page carry
RefsIn(s) == {n \in 1..Len(NewNames) : Contains(s, NewNames[n])}

\* C30: for a page patched in this run the rename map gives no new name
\* twice, and every img/<slug>/<new name> reference in the page names a file
\* of the page's img/<slug>/ directory that holds the bytes of the image the
\* converter wrote under the original name the map renames to it.
C30_ReferencesResolve ==
  \A p \in DOMAIN patchLog :
    LET r == patchLog[p].result
    IN /\ \A j, k \in 1..Len(r.image_files) :
            r.image_files[j][2] = r.image_files[k][2] => j = k
       /\ \A n \in RefsIn(pages[p]) :
            /\ n \in DOMAIN imgFiles[p]
            /\ \E k \in 1..Len(r.image_files) :
                 /\ r.image_files[k][2] = n
                 /\ imgFiles[p][n] = Bytes(r, r.image_files[k][1])

\* a run that ended with a page patched whose fragment refers to MaxImages
\* images
C30_Witness ==
  /\ phase = "done"
  /\ ~dryRun
  /\ \E p \in DOMAIN patchLog :
       /\ Cardinality(RefsIn(pages[p])) = MaxImages
       /\ Len(patchLog[p].result.image_files) = MaxImages
====
